---------------------------- MODULE Spec2Model ----------------------------
(***************************************************************************)
(* services/cloud_storage.py: upload of a local file to Google Cloud       *)
(* Storage or to an S3-compatible store.                                   *)
(*                                                                         *)
(* A Python str is a sequence of one-character strings.  An optional      *)
(* value (a parameter that may be None, the result of os.getenv) is a     *)
(* sequence of length at most one: None is << >>, the value v is <<v>>.    *)
(* One call of upload_file is a run of steps L70 .. done; `trace' lists    *)
(* what the call has done so far (validations, constructions, calls of    *)
(* the provider and of the backend helper, log records), in order.        *)
(***************************************************************************)
EXTENDS Naturals, Sequences, FiniteSets

VARIABLES
    env,                 \* os.environ: variable name -> optional value
    pc,                  \* position of the call of upload_file
    file_path,           \* argument of upload_file
    category,            \* argument of upload_file
    original_filename,   \* argument of upload_file (optional)
    fileExists,          \* whether file_path names an existing local file
    provider,            \* local of upload_file (line 70)
    sanitized_filename,  \* local of upload_file (line 73)
    destination_folder,  \* local of upload_file (line 74)
    helperOut,           \* what the backend helper returned or raised
    outcome,             \* what upload_file returned or raised to its caller
    trace,               \* events of the current call, in order
    prev                 \* the previous completed call (history), optional

vars == <<env, pc, file_path, category, original_filename, fileExists,
          provider, sanitized_filename, destination_folder, helperOut,
          outcome, trace, prev>>

locals == <<file_path, category, original_filename, fileExists, provider,
            sanitized_filename, destination_folder, helperOut, outcome>>

-----------------------------------------------------------------------------
(* Bounds and input sets *)

MaxLen == 2

Chars == {"a", " ", "_"}

RECURSIVE StringsUpTo(_)
StringsUpTo(n) ==
    IF n = 0 THEN {<< >>}
    ELSE LET S == StringsUpTo(n - 1)
         IN  S \cup {Append(s, c) : s \in {t \in S : Len(t) = n - 1}, c \in Chars}

None == << >>
Some(v) == <<v>>

Paths == { <<"/", "t", "/", "a">>, <<"a", " ", "b">>, <<"t", "/">> }

transcriptions == <<"t", "r", "a", "n", "s", "c", "r", "i", "p", "t", "i", "o", "n", "s">>

Categories == { transcriptions, <<"c">> }

Overrides == {None} \cup {Some(s) : s \in StringsUpTo(MaxLen)}

EnvVars == {"GCP_BUCKET_NAME", "S3_ENDPOINT_URL", "S3_ACCESS_KEY",
            "S3_SECRET_KEY", "S3_BUCKET_NAME"}

EnvValues(v) ==
    CASE v = "GCP_BUCKET_NAME" -> {None, Some("g"), Some("g2")}
      [] v = "S3_BUCKET_NAME"  -> {None, Some("b"), Some("b2")}
      [] v = "S3_ENDPOINT_URL" -> {None, Some("u")}
      [] v = "S3_ACCESS_KEY"   -> {None, Some("a")}
      [] v = "S3_SECRET_KEY"   -> {None, Some("s")}

Envs == {e \in [EnvVars -> {None, Some("g"), Some("g2"), Some("b"), Some("b2"),
                            Some("u"), Some("a"), Some("s")}] :
            \A v \in EnvVars : e[v] \in EnvValues(v)}

-----------------------------------------------------------------------------
(* Python built-ins the module uses *)

\* os.getenv(name): the value, or None
getenv(e, name) == e[name]

\* truth value of an optional str: None and "" are false
Truthy(o) == o # None /\ o[1] # << >>

\* os.path.basename(p): what follows the last "/"
basename(p) ==
    LET slashes == {i \in 1..Len(p) : p[i] = "/"}
        last == IF slashes = {} THEN 0
                ELSE CHOOSE i \in slashes : \A j \in slashes : j <= i
    IN  SubSeq(p, last + 1, Len(p))

str_replace_first(s, old, new) ==
    LET hits == {i \in 1..Len(s) : s[i] = old}
        first == IF hits = {} THEN 0
                 ELSE CHOOSE i \in hits : \A j \in hits : i <= j
    IN  [i \in 1..Len(s) |-> IF i = first THEN new ELSE s[i]]

\* s.replace(old, new) for one-character old and new: every occurrence
str_replace(s, old, new) ==
    [i \in 1..Len(s) |-> IF s[i] = old THEN new ELSE s[i]]

-----------------------------------------------------------------------------
(* External collaborators *)

RequiredVars(name) ==
    IF name = "GCP" THEN {"GCP_BUCKET_NAME"}
    ELSE {"S3_BUCKET_NAME", "S3_ENDPOINT_URL", "S3_ACCESS_KEY", "S3_SECRET_KEY"}

\* config.validate_env_vars(name): TRUE when it returns, FALSE when it raises
\* ValueError (a required variable is absent)
validate_env_vars(name, e) == \A v \in RequiredVars(name) : getenv(e, v) # None

\* the ValueError validate_env_vars(name) raises
ConfigError(name) == [kind |-> "raise", type |-> "ValueError", val |-> name]

Returned(url) == [kind |-> "return", type |-> "str", val |-> url]
Raised(type, msg) == [kind |-> "raise", type |-> type, val |-> msg]
NoOutcome == [kind |-> "none", type |-> "none", val |-> "none"]

\* upload_to_gcs / upload_to_s3: the URL the backend reports, or an exception;
\* a missing local file cannot be uploaded
HelperOutcomes(exists) ==
    {Raised("FileNotFoundError", "no such file"), Raised("ConnectionError", "timeout")}
    \cup (IF exists THEN {Returned("https://store/object")} ELSE {})

-----------------------------------------------------------------------------
(* Events of a call *)

Ev(name, arg) == [ev |-> name, arg |-> arg]

EventsOf(name) == SelectSeq(trace, LAMBDA x : x.ev = name)

HelperEvents == SelectSeq(trace, LAMBDA x : x.ev \in {"upload_to_gcs", "upload_to_s3"})

-----------------------------------------------------------------------------
(* Providers *)

NoProvider == [kind |-> "None"]

GCPStorageProvider_init(e) ==
    [kind |-> "GCP", bucket_name |-> getenv(e, "GCP_BUCKET_NAME")]

S3CompatibleProvider_init_swapped(e) ==
    [kind |-> "S3",
     endpoint_url |-> getenv(e, "S3_ACCESS_KEY"),
     access_key |-> getenv(e, "S3_ENDPOINT_URL"),
     secret_key |-> getenv(e, "S3_SECRET_KEY"),
     bucket_name |-> getenv(e, "S3_BUCKET_NAME")]

S3CompatibleProvider_init(e) ==
    [kind |-> "S3",
     endpoint_url |-> getenv(e, "S3_ENDPOINT_URL"),
     access_key |-> getenv(e, "S3_ACCESS_KEY"),
     secret_key |-> getenv(e, "S3_SECRET_KEY"),
     bucket_name |-> getenv(e, "S3_BUCKET_NAME")]

\* GCPStorageProvider.upload_file: the invocation of upload_to_gcs it makes
GCP_upload_file(self, fp, folder, of) ==
    LET file_name == IF Truthy(of) THEN of[1] ELSE basename(fp)
        cloud_path == folder \o <<"/">> \o file_name
    IN  Ev("upload_to_gcs", <<fp, self.bucket_name, cloud_path>>)

\* S3CompatibleProvider.upload_file: the invocation of upload_to_s3 it makes
S3_upload_file(self, fp, folder, of) ==
    LET file_name == IF Truthy(of) THEN of[1] ELSE basename(fp)
        cloud_path == folder \o <<"/">> \o file_name
    IN  Ev("upload_to_s3", <<fp, self.bucket_name, cloud_path,
                             self.endpoint_url, self.access_key, self.secret_key>>)

-----------------------------------------------------------------------------
(* Provider selector *)

Selected(p, events) ==
    [raised |-> FALSE, provider |-> p, events |-> events, exc |-> NoOutcome]
SelectFailed(events, exc) ==
    [raised |-> TRUE, provider |-> NoProvider, events |-> events, exc |-> exc]

get_storage_provider_s3_first(e) ==
    IF validate_env_vars("S3", e)
    THEN Selected(S3CompatibleProvider_init(e),
                  <<Ev("validate_env_vars", "S3"), Ev("construct", "S3")>>)
    ELSE IF validate_env_vars("GCP", e)
    THEN Selected(GCPStorageProvider_init(e),
                  <<Ev("validate_env_vars", "S3"), Ev("validate_env_vars", "GCP"),
                    Ev("construct", "GCP")>>)
    ELSE SelectFailed(<<Ev("validate_env_vars", "S3"), Ev("validate_env_vars", "GCP")>>,
                      ConfigError("GCP"))

get_storage_provider_unvalidated(e) ==
    IF validate_env_vars("GCP", e)
    THEN Selected(GCPStorageProvider_init(e),
                  <<Ev("validate_env_vars", "GCP"), Ev("construct", "GCP")>>)
    ELSE Selected(S3CompatibleProvider_init(e),
                  <<Ev("validate_env_vars", "GCP"), Ev("construct", "S3")>>)

get_storage_provider_cached(e) ==
    IF prev # None /\ prev[1].provider.kind # "None"
    THEN Selected(prev[1].provider, << >>)
    ELSE IF validate_env_vars("GCP", e)
    THEN Selected(GCPStorageProvider_init(e),
                  <<Ev("validate_env_vars", "GCP"), Ev("construct", "GCP")>>)
    ELSE IF validate_env_vars("S3", e)
    THEN Selected(S3CompatibleProvider_init(e),
                  <<Ev("validate_env_vars", "GCP"), Ev("validate_env_vars", "S3"),
                    Ev("construct", "S3")>>)
    ELSE SelectFailed(<<Ev("validate_env_vars", "GCP"), Ev("validate_env_vars", "S3")>>,
                      ConfigError("S3"))

\* get_storage_provider(): try GCP; on ValueError validate S3 and let its
\* ValueError propagate
get_storage_provider(e) ==
    IF validate_env_vars("GCP", e)
    THEN Selected(GCPStorageProvider_init(e),
                  <<Ev("validate_env_vars", "GCP"), Ev("construct", "GCP")>>)
    ELSE IF validate_env_vars("S3", e)
    THEN Selected(S3CompatibleProvider_init(e),
                  <<Ev("validate_env_vars", "GCP"), Ev("validate_env_vars", "S3"),
                    Ev("construct", "S3")>>)
    ELSE SelectFailed(<<Ev("validate_env_vars", "GCP"), Ev("validate_env_vars", "S3")>>,
                      ConfigError("S3"))

-----------------------------------------------------------------------------
(* Upload orchestrator: locals *)

SanitizedFilename_whole_path(fp, of) ==
    IF Truthy(of) THEN str_replace(of[1], " ", "_") ELSE fp

SanitizedFilename_first_space(fp, of) ==
    IF Truthy(of) THEN str_replace_first(of[1], " ", "_") ELSE basename(fp)

SanitizedFilename_is_not_none(fp, of) ==
    IF of # None THEN str_replace(of[1], " ", "_") ELSE basename(fp)

\* line 73
SanitizedFilename(fp, of) ==
    IF Truthy(of) THEN str_replace(of[1], " ", "_") ELSE basename(fp)

\* line 74
DestinationFolder(cat) == <<"u", "p", "l", "o", "a", "d", "s", "/">> \o cat


-----------------------------------------------------------------------------
(* Initial state: no call in progress *)

NoLocals ==
    /\ file_path = << >>
    /\ category = << >>
    /\ original_filename = None
    /\ fileExists = FALSE
    /\ provider = NoProvider
    /\ sanitized_filename = << >>
    /\ destination_folder = << >>
    /\ helperOut = NoOutcome
    /\ outcome = NoOutcome

Init ==
    /\ env \in Envs
    /\ pc = "idle"
    /\ NoLocals
    /\ trace = << >>
    /\ prev = None

-----------------------------------------------------------------------------
(* The process environment, set from outside between calls *)

SetEnv(v, x) ==
    /\ pc = "idle"
    /\ env' = [env EXCEPT ![v] = x]
    /\ UNCHANGED <<pc, locals, trace, prev>>

-----------------------------------------------------------------------------
(* upload_file(file_path, category="transcriptions", original_filename=None) *)

\* the caller enters upload_file
Call(fp, cat, of, exists) ==
    /\ pc = "idle"
    /\ pc' = "L70"
    /\ file_path' = fp
    /\ category' = cat
    /\ original_filename' = of
    /\ fileExists' = exists
    /\ trace' = << >>
    /\ UNCHANGED <<env, provider, sanitized_filename, destination_folder,
                   helperOut, outcome, prev>>

\* line 70: provider = get_storage_provider(); its ValueError is outside the
\* try block and reaches the caller as it is
SelectProvider ==
    /\ pc = "L70"
    /\ LET r == get_storage_provider(env)
       IN  /\ trace' = trace \o r.events
           /\ provider' = r.provider
           /\ IF r.raised
              THEN /\ outcome' = r.exc
                   /\ pc' = "done"
              ELSE /\ outcome' = outcome
                   /\ pc' = "L73"
    /\ UNCHANGED <<env, file_path, category, original_filename, fileExists,
                   sanitized_filename, destination_folder, helperOut, prev>>

\* lines 73-77: the filename, the folder, the info record
Prepare ==
    /\ pc = "L73"
    /\ sanitized_filename' = SanitizedFilename(file_path, original_filename)
    /\ destination_folder' = DestinationFolder(category)
    /\ trace' = Append(trace, Ev("log", "info"))
    /\ pc' = "L78"
    /\ UNCHANGED <<env, file_path, category, original_filename, fileExists,
                   provider, helperOut, outcome, prev>>

ProviderCall ==
    Ev("provider.upload_file", <<file_path, destination_folder, sanitized_filename>>)

HelperCall ==
    IF provider.kind = "GCP"
    THEN GCP_upload_file(provider, file_path, destination_folder, Some(sanitized_filename))
    ELSE S3_upload_file(provider, file_path, destination_folder, Some(sanitized_filename))

\* line 78: provider.upload_file(...), which invokes the backend helper once
ProviderUpload ==
    /\ pc = "L78"
    /\ trace' = trace \o <<ProviderCall, HelperCall>>
    /\ \E o \in HelperOutcomes(fileExists) :
          /\ helperOut' = o
          /\ pc' = IF o.kind = "return" THEN "L79" ELSE "L81"
    /\ UNCHANGED <<env, file_path, category, original_filename, fileExists,
                   provider, sanitized_filename, destination_folder, outcome, prev>>

\* lines 79-80: info record, return url
LogSuccess ==
    /\ pc = "L79"
    /\ trace' = Append(trace, Ev("log", "info"))
    /\ outcome' = helperOut
    /\ pc' = "done"
    /\ UNCHANGED <<env, file_path, category, original_filename, fileExists,
                   provider, sanitized_filename, destination_folder, helperOut, prev>>

LogFailure_translated ==
    /\ pc = "L81"
    /\ trace' = Append(trace, Ev("log", "error"))
    /\ outcome' = Raised("RuntimeError", helperOut.val)
    /\ pc' = "done"
    /\ UNCHANGED <<env, file_path, category, original_filename, fileExists,
                   provider, sanitized_filename, destination_folder, helperOut, prev>>

\* lines 81-83: error record, bare raise
LogFailure ==
    /\ pc = "L81"
    /\ trace' = Append(trace, Ev("log", "error"))
    /\ outcome' = helperOut
    /\ pc' = "done"
    /\ UNCHANGED <<env, file_path, category, original_filename, fileExists,
                   provider, sanitized_filename, destination_folder, helperOut, prev>>

ResetLocals ==
    /\ file_path' = << >>
    /\ category' = << >>
    /\ original_filename' = None
    /\ fileExists' = FALSE
    /\ provider' = NoProvider
    /\ sanitized_filename' = << >>
    /\ destination_folder' = << >>
    /\ helperOut' = NoOutcome
    /\ outcome' = NoOutcome

\* the call is over: its locals, the provider among them, are gone
ReturnToCaller ==
    /\ pc = "done"
    /\ pc' = "idle"
    /\ ResetLocals
    /\ trace' = << >>
    /\ UNCHANGED <<env, prev>>

Next ==
    \/ \E v \in EnvVars : \E x \in EnvValues(v) : SetEnv(v, x)
    \/ \E fp \in Paths, cat \in Categories, of \in Overrides, exists \in BOOLEAN :
          Call(fp, cat, of, exists)
    \/ SelectProvider
    \/ Prepare
    \/ ProviderUpload
    \/ LogSuccess
    \/ LogFailure
    \/ ReturnToCaller

Spec == Init /\ [][Next]_vars

-----------------------------------------------------------------------------
(* Sequences of calls: the same steps, with the completed call recorded in   *)
(* prev, over a smaller set of inputs                                        *)

SeqPaths == { <<"/", "t", "/", "a">>, <<"a", " ", "b">> }

SeqOverrides == { None, Some(<< >>), Some(<<"a", " ">>) }

SeqEnv ==
    [v \in EnvVars |->
        CASE v = "GCP_BUCKET_NAME" -> None
          [] v = "S3_BUCKET_NAME"  -> Some("b")
          [] v = "S3_ENDPOINT_URL" -> Some("u")
          [] v = "S3_ACCESS_KEY"   -> Some("a")
          [] v = "S3_SECRET_KEY"   -> Some("s")]

InitSeq ==
    /\ env = SeqEnv
    /\ pc = "idle"
    /\ NoLocals
    /\ trace = << >>
    /\ prev = None

CallRecord ==
    [env |-> env,
     args |-> <<file_path, category, original_filename, fileExists>>,
     provider |-> provider,
     helper |-> HelperEvents,
     outcome |-> outcome]

\* the call is over, and the history remembers it
ReturnRecorded ==
    /\ pc = "done"
    /\ pc' = "idle"
    /\ prev' = Some(CallRecord)
    /\ ResetLocals
    /\ trace' = << >>
    /\ UNCHANGED env

NextSeq ==
    \/ \E v \in {"GCP_BUCKET_NAME", "S3_BUCKET_NAME"} : \E x \in EnvValues(v) : SetEnv(v, x)
    \/ \E fp \in SeqPaths, of \in SeqOverrides : Call(fp, transcriptions, of, TRUE)
    \/ SelectProvider
    \/ Prepare
    \/ ProviderUpload
    \/ LogSuccess
    \/ LogFailure
    \/ ReturnRecorded

SpecSeq == InitSeq /\ [][NextSeq]_vars

-----------------------------------------------------------------------------
(* Vocabulary of the properties *)

Selection == pc \notin {"idle", "L70"}     \* get_storage_provider has run
Uploaded == HelperEvents # << >>           \* the backend helper was invoked

ValidGCP == validate_env_vars("GCP", env)
ValidS3 == validate_env_vars("S3", env)

Uploads == <<"u", "p", "l", "o", "a", "d", "s", "/">>

\* b is the base name of p: the suffix of p without "/" that starts p or
\* follows a "/"
IsBaseNameOf(b, p) ==
    \E k \in 0..Len(p) :
        /\ b = SubSeq(p, k + 1, Len(p))
        /\ \A i \in 1..Len(b) : b[i] # "/"
        /\ k = 0 \/ p[k] = "/"

\* t is s with every space turned into an underscore and nothing else changed
IsUnderscored(t, s) ==
    /\ Len(t) = Len(s)
    /\ \A i \in 1..Len(s) : t[i] = IF s[i] = " " THEN "_" ELSE s[i]

\* the filename the orchestrator handed to the provider
PassedFilename == EventsOf("provider.upload_file")[1].arg[3]
PassedFolder == EventsOf("provider.upload_file")[1].arg[2]

\* the cloud path the helper was invoked with
CloudPath == HelperEvents[1].arg[3]

\* what follows the folder and its "/" in the cloud path
CloudFilename ==
    SubSeq(CloudPath, Len(Uploads) + Len(category) + 2, Len(CloudPath))

-----------------------------------------------------------------------------
(* C1: whenever the GCP validation succeeds the GCP provider is returned,    *)
(* whatever the S3 variables are, and then validate_env_vars('S3') is never  *)
(* called and upload_to_s3 never invoked; the S3 provider is returned only   *)
(* when the GCP validation fails and the S3 validation succeeds.             *)
C1_GcpBeforeS3 ==
    Selection =>
        /\ ValidGCP =>
              /\ provider.kind = "GCP"
              /\ EventsOf("validate_env_vars") = <<Ev("validate_env_vars", "GCP")>>
              /\ EventsOf("upload_to_s3") = << >>
        /\ provider.kind = "S3" => ~ValidGCP /\ ValidS3

C1_Witness ==
    /\ pc = "done"
    /\ ValidGCP /\ ValidS3
    /\ provider.kind = "GCP"
    /\ EventsOf("upload_to_gcs") # << >>

(* C2: when neither validation succeeds, upload_file ends with the           *)
(* configuration error of the S3 validation, no provider was constructed and *)
(* neither helper (nor any provider's upload_file) was invoked.              *)
C2_ConfigErrorBeforeAnyUpload ==
    (Selection /\ ~ValidGCP /\ ~ValidS3) =>
        /\ pc = "done"
        /\ outcome = ConfigError("S3")
        /\ provider = NoProvider
        /\ EventsOf("construct") = << >>
        /\ EventsOf("provider.upload_file") = << >>
        /\ ~Uploaded
        /\ EventsOf("validate_env_vars")
              = <<Ev("validate_env_vars", "GCP"), Ev("validate_env_vars", "S3")>>

C2_Witness ==
    /\ pc = "done"
    /\ ~ValidGCP /\ ~ValidS3
    /\ env["S3_BUCKET_NAME"] # None
    /\ outcome.type = "ValueError"

(* C3: with no filename override, the orchestrator calls the provider's      *)
(* upload_file once, with folder 'uploads/' + category and with the base     *)
(* name of the local path as filename.                                       *)
C3_DefaultFolderAndFilename ==
    (original_filename = None /\ pc \in {"L79", "L81", "done"} /\ provider.kind # "None") =>
        /\ Len(EventsOf("provider.upload_file")) = 1
        /\ EventsOf("provider.upload_file")[1].arg[1] = file_path
        /\ PassedFolder = Uploads \o category
        /\ IsBaseNameOf(PassedFilename, file_path)

C3_Witness ==
    /\ pc = "done"
    /\ original_filename = None
    /\ file_path = <<"/", "t", "/", "a">>
    /\ category = <<"c">>
    /\ Uploaded
    /\ PassedFolder = Uploads \o <<"c">>
    /\ PassedFilename = <<"a">>

(* C4: a (non-empty) override reaches the provider and the cloud path with   *)
(* every space replaced by an underscore and every other character, the      *)
(* order and the length unchanged; the result holds no space and sanitizing  *)
(* it again changes nothing.                                                 *)
C4_SpacesToUnderscores ==
    (Truthy(original_filename) /\ Uploaded) =>
        /\ IsUnderscored(PassedFilename, original_filename[1])
        /\ \A i \in 1..Len(PassedFilename) : PassedFilename[i] # " "
        /\ CloudFilename = PassedFilename
        /\ SanitizedFilename(file_path, Some(PassedFilename)) = PassedFilename

C4_Witness ==
    /\ pc = "done"
    /\ original_filename = Some(<<" ", " ">>)
    /\ Uploaded
    /\ CloudFilename = <<"_", "_">>

(* C5: with the S3 provider selected and a local path that names no existing *)
(* file, upload_file raises a file-not-found error and upload_to_s3 is never *)
(* invoked.                                                                  *)
C5_MissingFileNeverUploaded ==
    (provider.kind = "S3" /\ ~fileExists /\ pc \in {"L79", "L81", "done"}) =>
        /\ EventsOf("upload_to_s3") = << >>
        /\ pc = "done" => outcome.type = "FileNotFoundError"

(* C6: the outcome of upload_file is the outcome of one invocation of the    *)
(* selected helper: the same URL, or the same exception (kind and message);  *)
(* the helper is never invoked twice.                                        *)
C6_OutcomeIsHelperOutcome ==
    /\ Len(HelperEvents) <= 1
    /\ (pc = "done" /\ provider.kind # "None") =>
          /\ Len(HelperEvents) = 1
          /\ helperOut \in HelperOutcomes(fileExists)
          /\ outcome = helperOut

C6_Witness ==
    /\ pc = "done"
    /\ outcome = Raised("ConnectionError", "timeout")
    /\ Len(HelperEvents) = 1

(* C7: upload_file never ends with an exception without an error record      *)
(* logged earlier in the same call.                                          *)
C7_FailureIsLogged ==
    (pc = "done" /\ outcome.kind = "raise") =>
        \E i \in 1..Len(trace) : trace[i] = Ev("log", "error")

(* C8: the helper is invoked with the local path unchanged, the cloud path   *)
(* 'uploads/' + category + '/' + effective filename, and the selected        *)
(* provider's configuration as it is in the environment: GCP_BUCKET_NAME for *)
(* upload_to_gcs; S3_BUCKET_NAME, S3_ENDPOINT_URL, S3_ACCESS_KEY,            *)
(* S3_SECRET_KEY, in that order, for upload_to_s3.                           *)
C8_HelperArguments ==
    Uploaded =>
        LET h == HelperEvents[1]
        IN  /\ h.arg[1] = file_path
            /\ LET pre == Uploads \o category \o <<"/">>
                   name == SubSeq(h.arg[3], Len(pre) + 1, Len(h.arg[3]))
               IN  /\ Len(h.arg[3]) >= Len(pre)
                   /\ SubSeq(h.arg[3], 1, Len(pre)) = pre
                   /\ IF Truthy(original_filename)
                      THEN IsUnderscored(name, original_filename[1])
                      ELSE IsBaseNameOf(name, file_path)
            /\ IF provider.kind = "GCP"
               THEN /\ h.ev = "upload_to_gcs"
                    /\ Len(h.arg) = 3
                    /\ h.arg[2] = env["GCP_BUCKET_NAME"]
               ELSE /\ h.ev = "upload_to_s3"
                    /\ Len(h.arg) = 6
                    /\ h.arg[2] = env["S3_BUCKET_NAME"]
                    /\ h.arg[4] = env["S3_ENDPOINT_URL"]
                    /\ h.arg[5] = env["S3_ACCESS_KEY"]
                    /\ h.arg[6] = env["S3_SECRET_KEY"]

C8_Witness ==
    /\ pc = "done"
    /\ outcome.kind = "return"
    /\ provider.kind = "S3"
    /\ HelperEvents[1].arg = <<<<"/", "t", "/", "a">>, Some("b2"),
                               Uploads \o transcriptions \o <<"/", "a">>,
                               Some("u"), Some("a"), Some("s")>>

(* C9: no state survives a call.  The steps of upload_file leave the         *)
(* environment as it is; the provider and its configuration are those the    *)
(* environment of the current call gives, whatever the earlier call was; a   *)
(* call with the environment and the arguments of the call before it selects *)
(* the same provider and invokes the helper with the same arguments, whether *)
(* that call succeeded or failed.                                            *)
C9_ProviderFromEnv ==
    Selection =>
        /\ provider.kind = "GCP" <=> ValidGCP
        /\ provider.kind = "S3" <=> (~ValidGCP /\ ValidS3)
        /\ provider.kind = "GCP" => provider.bucket_name = env["GCP_BUCKET_NAME"]
        /\ provider.kind = "S3" =>
              /\ provider.bucket_name = env["S3_BUCKET_NAME"]
              /\ provider.endpoint_url = env["S3_ENDPOINT_URL"]
              /\ provider.access_key = env["S3_ACCESS_KEY"]
              /\ provider.secret_key = env["S3_SECRET_KEY"]

C9_SameAsBefore ==
    (pc = "done" /\ prev # None) =>
        \/ prev[1].env # env
        \/ prev[1].args # CallRecord.args
        \/ /\ prev[1].provider = provider
           /\ prev[1].helper = HelperEvents

C9_NoStateSurvives ==
    [][ /\ pc # "idle" => env' = env
        /\ pc' = "idle" => NoLocals' /\ trace' = << >>
        /\ C9_ProviderFromEnv'
        /\ C9_SameAsBefore' ]_vars

C9_Witness ==
    /\ pc = "done"
    /\ prev # None
    /\ prev[1].env = env
    /\ prev[1].args = CallRecord.args
    /\ prev[1].outcome.kind = "raise"
    /\ outcome.kind = "return"
    /\ provider.kind = "GCP"
    /\ provider.bucket_name = Some("g2")

(* C10 as stated: an empty override is no override (the base name is the     *)
(* filename at the orchestrator and at the provider, and ends the cloud      *)
(* path); a non-empty override is used after space replacement, and the base *)
(* name of the local path never appears in the cloud path.                   *)
C10_BaseNameNeverAppears ==
    Uploaded =>
        /\ original_filename = Some(<< >>) =>
              /\ IsBaseNameOf(PassedFilename, file_path)
              /\ CloudPath = Uploads \o category \o <<"/">> \o PassedFilename
        /\ Truthy(original_filename) =>
              /\ IsUnderscored(CloudFilename, original_filename[1])
              /\ ~IsBaseNameOf(CloudFilename, file_path)

(* C10 as amended: an empty override is no override (the base name is the    *)
(* filename at the orchestrator and at the provider, and ends the cloud      *)
(* path); a non-empty override is used after space replacement as the        *)
(* filename of the cloud path whatever the local path is, so the base name   *)
(* is there only when the sanitized override is the base name itself.        *)
C10_EmptyOverrideIsNone ==
    Uploaded =>
        /\ original_filename = Some(<< >>) =>
              /\ IsBaseNameOf(PassedFilename, file_path)
              /\ CloudPath = Uploads \o category \o <<"/">> \o PassedFilename
        /\ Truthy(original_filename) =>
              /\ IsUnderscored(CloudFilename, original_filename[1])
              /\ CloudPath = Uploads \o category \o <<"/">> \o CloudFilename
              /\ \/ ~IsBaseNameOf(CloudFilename, file_path)
                 \/ IsUnderscored(basename(file_path), original_filename[1])

C10_Witness ==
    /\ pc = "done"
    /\ original_filename = Some(<< >>)
    /\ file_path = <<"a", " ", "b">>
    /\ Uploaded
    /\ CloudFilename = <<"a", " ", "b">>

=============================================================================
